---- MODULE Spec2Model ----
(***************************************************************************)
(* Model of the HLS polling / segment acquisition loop of main.go:         *)
(* HLSDownloader.Start, processChunks, getPlaylist, switchToReplay,        *)
(* downloadChunk and Close, the shutdown sequence of main, and goroutines  *)
(* that call Close while Start runs.                                       *)
(*                                                                         *)
(* The Start goroutine is cut into steps at its blocking points (the two   *)
(* HTTP calls and the two sleeps) and at the two selects on stopChan,      *)
(* which are the only places where it reads state another goroutine        *)
(* writes.  Close is cut at its select, its close(stopChan) and its        *)
(* writer.Close().                                                         *)
(***************************************************************************)
EXTENDS Integers, Sequences, FiniteSets, TLC

\* ------------------------------------------------------------------ bounds
\* number of distinct segment names a server lists
NumRefs == 2
\* longest segment list of an enumerated manifest body
MaxSegs == 2
\* goroutines, besides main, that call Close once each
NumCallers == 1
\* most HTTP requests counted within one call of Start's getPlaylist
MaxFetches == 3
\* longest manifest body, in lines, handed to getPlaylist on its own
MaxLines == 4

\* ------------------------------------------------------ program constants
MAX_RETRIES == 10

\* ----------------------------------------------------- lines of a manifest
\* A line of a manifest body after strings.TrimSpace, reduced to what the
\* code tests of it.  kind: "blank" (empty), "extinf" (prefix #EXTINF:),
\* "endlist" (#EXT-X-ENDLIST), "tag" (another line with prefix #), "seg" (a
\* segment reference), "m3u8" (a line with suffix .m3u8).  abs: the line has
\* prefix http (an absolute URL below the directory "cdn").  name: which
\* segment; for an m3u8 line 0 is master_playlist.m3u8, 1 chunklist.m3u8.
Line(k, a, n) == [kind |-> k, abs |-> a, name |-> n]
Blank == Line("blank", FALSE, 0)
ExtInf == Line("extinf", FALSE, 0)
EndList == Line("endlist", FALSE, 0)
Tag == Line("tag", FALSE, 0)
Seg(n) == Line("seg", FALSE, n)
AbsSeg(n) == Line("seg", TRUE, n)
Nested == Line("m3u8", FALSE, 1)
Master == Line("m3u8", FALSE, 0)

HasPrefixExtinf(line) == line.kind = "extinf"
HasPrefixHash(line) == line.kind \in {"extinf", "endlist", "tag"}
ContainsEndlist(line) == line.kind = "endlist"
HasPrefixHttp(line) == line.abs
HasSuffixM3u8(line) == line.kind = "m3u8"
ContainsMasterPlaylist(line) == line.kind = "m3u8" /\ line.name = 0
\* filepath.Base: the trailing path component
Base(line) == [line EXCEPT !.abs = FALSE]
\* firstChunk[:lastSlashIndex] of an absolute reference
DirOfAbs(line) == "cdn"

\* ------------------------------------------------------------------- URLs
\* A manifest URL is a directory and a file name.  The directory "live"
\* holds the text type=live, "replay" holds type=replay.
URL(d, f) == [dir |-> d, file |-> f]
NoURL == URL("none", "none")
\* playlistURL[:strings.LastIndex(playlistURL, "/")]
DirOf(u) == u.dir

\* strings.Replace(type=live -> type=replay), then dynamic_playlist.m3u8 ->
\* master_playlist.m3u8
ReplayURL(u) ==
  LET d == IF u.dir = "live" THEN "replay" ELSE u.dir
      f == IF u.file = "dynamic_playlist.m3u8" THEN "master_playlist.m3u8" ELSE u.file
  IN URL(d, f)

\* fmt.Sprintf("%s/%s", d.baseURL, line), or the line itself when absolute
NestedPath(base, line) ==
  IF HasPrefixHttp(line) THEN URL(DirOfAbs(line), "chunklist.m3u8")
  ELSE URL(base, "chunklist.m3u8")

\* ------------------------------------------------------------ getPlaylist
\* The first scan of the body: lines first..Len(body), with the scanner
\* state st = [chunks, isChunk, endlist].
RECURSIVE ScanFrom(_, _, _)
ScanFrom(body, i, st) ==
  IF i > Len(body) THEN st
  ELSE LET line == body[i] IN
    IF line.kind = "blank" THEN ScanFrom(body, i + 1, st)
    ELSE IF HasPrefixExtinf(line) THEN ScanFrom(body, i + 1, [st EXCEPT !.isChunk = TRUE])
    ELSE LET take == st.isChunk /\ ~HasPrefixHash(line)
             st1 == IF take
                    THEN [st EXCEPT !.chunks = Append(@, line), !.isChunk = FALSE]
                    ELSE st
             st2 == IF ContainsEndlist(line) THEN [st1 EXCEPT !.endlist = TRUE] ELSE st1
         IN ScanFrom(body, i + 1, st2)

ScanBody_FromSecond(body) ==
  ScanFrom(body, 2, [chunks |-> <<>>, isChunk |-> FALSE, endlist |-> FALSE])
ScanBody(body) == ScanFrom(body, 1, [chunks |-> <<>>, isChunk |-> FALSE, endlist |-> FALSE])

\* Whether the list is rewritten to bare names: the first chunk is absolute.
RewritesBase(chunks) == Len(chunks) > 0 /\ HasPrefixHttp(chunks[1])
RewriteChunks(chunks) ==
  IF RewritesBase(chunks) THEN [i \in 1..Len(chunks) |-> Base(chunks[i])] ELSE chunks
RewriteBaseURL(chunks, base) ==
  IF RewritesBase(chunks) THEN DirOfAbs(chunks[1]) ELSE base

\* The second scan: the lines that name a nested manifest.
NestedLines_AnyM3u8(body) == {i \in 1..Len(body) : HasSuffixM3u8(body[i])}
NestedLines(body) ==
  {i \in 1..Len(body) : HasSuffixM3u8(body[i]) /\ ~ContainsMasterPlaylist(body[i])}
HasNested(body) == NestedLines(body) # {}
FirstNested(body) ==
  body[CHOOSE i \in NestedLines(body) : \A j \in NestedLines(body) : i <= j]

\* ------------------------------------------------- what the servers answer
SeqsUpTo(S, n) == UNION {[1..k -> S] : k \in 0..n}
Refs == {Seg(n) : n \in 1..NumRefs}
\* #EXTINF / reference pairs, then the end marker if e
SegBody(rs, e) ==
  [i \in 1..(2 * Len(rs)) |-> IF i % 2 = 1 THEN ExtInf ELSE rs[i \div 2]]
    \o (IF e THEN <<EndList>> ELSE <<>>)
Bodies ==
  {SegBody(rs, e) : rs \in SeqsUpTo(Refs, MaxSegs), e \in BOOLEAN}
    \cup {<<Tag, Nested>>, <<EndList, Nested>>, <<Tag, Master>>,
          <<ExtInf, AbsSeg(1), ExtInf, Seg(2)>>}
\* the first scan of each of these bodies
Scanned == [b \in Bodies |-> ScanBody(b)]
\* client.Do fails, the status is not 200, or the status is 200 with a body
Responses ==
  {[status |-> "err", body |-> <<>>], [status |-> "non200", body |-> <<>>]}
    \cup {[status |-> "ok", body |-> b] : b \in Bodies}
\* downloadChunk: client.Do fails, status not 200, io.Copy fails on the body,
\* before a byte is written, io.Copy fails on the body after it wrote a part
\* of it, io.Copy writes to the closed file, the payload is appended, or the
\* body is empty and nothing is written
DownloadResults ==
  {"reqErr", "httpErr", "copyErr", "copyTorn", "closed", "ok", "okEmpty"}
\* the lines of a body handed to getPlaylist on its own, and these bodies
ParseLines == {Blank, ExtInf, EndList, Tag, Nested, Master, AbsSeg(1)} \cup Refs
ParseBodies == SeqsUpTo(ParseLines, MaxLines)
\* the stream URL main hands to Start
StartURLs == {URL("live", "dynamic_playlist.m3u8")}

\* ------------------------------------------------- decisions of the driver
\* line 179: the error is "No audio segments ... found" and replay untried
CanSwitchToReplay_NoFlag(kind, tried) == kind = "noseg"
CanSwitchToReplay(kind, tried) == kind = "noseg" /\ ~tried

\* line 187
RetryExceeded_NoRetry(rc) == rc > 0
RetryExceeded(rc) == rc > MAX_RETRIES

\* line 195
RetryCountAfterSuccess_Kept(rc) == rc
RetryCountAfterSuccess(rc) == 0

\* line 217
NeedsDownload_Always(seen, chunk) == TRUE
NeedsDownload(seen, chunk) == chunk \notin seen

\* lines 219-226: the ledger after downloadChunk returned res
MarkSeen_Always(seen, chunk, res) == seen \cup {chunk}
MarkSeen(seen, chunk, res) ==
  IF res \in {"ok", "okEmpty"} THEN seen \cup {chunk} ELSE seen

\* lines 279-281: d.isCompleted after the first scan
CompletedAfter_IfChunks(completed, sc) ==
  completed \/ (sc.endlist /\ Len(sc.chunks) > 0)
CompletedAfter(completed, sc) == completed \/ sc.endlist

\* line 353: the file after io.Copy(d.writer, resp.Body) ended as res
SinkAfter(file, chunk, res) == IF res = "ok" THEN Append(file, chunk) ELSE file
TornAfter(torn, res) == torn \/ res = "copyTorn"

Min(a, b) == IF a < b THEN a ELSE b

\* ------------------------------------------------------------------ state
VARIABLES
  \* HLSDownloader fields
  baseURL,        \* d.baseURL: a directory
  seenChunks,     \* d.seenChunks: the references mapped to true
  isCompleted,    \* d.isCompleted
  stopChan,       \* TRUE once d.stopChan is closed
  writerClosed,   \* TRUE once the file behind d.writer is closed
  sink,           \* the file behind d.writer: the references whose whole
                  \* payload was appended, in the order of the appends
  sinkTorn,       \* TRUE once the file also holds a part of a payload
  overtaken,      \* history of the file: the references that were not in
                  \* it when the payload of a reference their manifest
                  \* lists behind them was appended
  \* the goroutine of main, which runs Start
  pc,             \* where it is
  playlistURL,    \* Start's playlistURL
  retryCount,     \* Start's retryCount
  hasTriedReplay, \* Start's hasTriedReplay
  chunks,         \* the list getPlaylist returned to this iteration
  idx,            \* position of processChunks in chunks
  reqURL,         \* URL of the manifest request in flight
  fetches,        \* HTTP requests issued so far by the running call of
                  \* getPlaylist(playlistURL), its recursion included
  content,        \* getPlaylist's content, when a body is handed to it on
                  \* its own; Start reads and scans a body in one step
  outcome,        \* how Start ended: "none", "Completed", "Stopped", "Failed"
  \* Close calls: where main's deferred downloader.Close() is, and how many
  \* of the other goroutines are at each place of their Close call
  mainClose,
  closers,
  panicked,       \* the process died of close of closed channel
  \* history of the run
  marked,             \* the references ever marked in seenChunks
  switchCount,        \* calls of switchToReplay (counted up to 2)
  consecFails,        \* failed fetches since the last success or switch
  retryWaits,         \* retry delays waited since the last success or switch
  lastFetch,          \* result of the last fetch: ok, fail, nosegSwitch
  secondNoSeg,        \* the last fetch found no segments, right after the
                      \* fetch that found none and switched to replay
  closesByClose,      \* calls of writer.Close() made by HLSDownloader.Close
  closesByMain,       \* calls of writer.Close() made by main's defer
  stopObserved,       \* a select of Start or processChunks found stopChan closed
  failedRefs          \* references whose last download failed, sink open

wvars == <<sink, sinkTorn, overtaken>>
gvars == <<fetches, content>>
dvars == <<baseURL, seenChunks, isCompleted, stopChan, writerClosed, wvars>>
svars == <<pc, playlistURL, retryCount, hasTriedReplay, chunks, idx, reqURL, outcome,
           gvars>>
cvars == <<mainClose, closers, panicked>>
fvars == <<consecFails, retryWaits, lastFetch, secondNoSeg, switchCount>>
hvars == <<marked, closesByClose, closesByMain,
           stopObserved, failedRefs>>
vars == <<dvars, svars, cvars, fvars, hvars>>

ClosePcs == {"idle", "closeChan", "writer", "done"}
Who == {"main", "other"}
\* the process runs: no panic, and main has not left
Alive == ~panicked /\ pc # "exited"

\* NewHLSDownloader, and main up to the call of Start
Init ==
  /\ baseURL = "none"
  /\ seenChunks = {}
  /\ isCompleted = FALSE
  /\ stopChan = FALSE
  /\ writerClosed = FALSE
  /\ sink = <<>>
  /\ sinkTorn = FALSE
  /\ overtaken = {}
  /\ fetches = 0
  /\ content = <<>>
  /\ pc = "new"
  /\ playlistURL \in StartURLs
  /\ retryCount = 0
  /\ hasTriedReplay = FALSE
  /\ chunks = <<>>
  /\ idx = 1
  /\ reqURL = NoURL
  /\ outcome = "none"
  /\ mainClose = "idle"
  /\ closers = [p \in ClosePcs |-> IF p = "idle" THEN NumCallers ELSE 0]
  /\ panicked = FALSE
  /\ marked = {}
  /\ switchCount = 0
  /\ consecFails = 0
  /\ retryWaits = 0
  /\ lastFetch = "none"
  /\ secondNoSeg = FALSE
  /\ closesByClose = 0
  /\ closesByMain = 0
  /\ stopObserved = FALSE
  /\ failedRefs = {}

\* --------------------------------------------------------------- Start
\* lines 164-169
StartCall ==
  /\ Alive /\ pc = "new"
  /\ baseURL' = DirOf(playlistURL)
  /\ retryCount' = 0
  /\ hasTriedReplay' = FALSE
  /\ pc' = "loop"
  /\ UNCHANGED <<seenChunks, isCompleted, stopChan, writerClosed, wvars, playlistURL,
                 chunks, idx, reqURL, gvars, outcome, cvars, fvars, hvars>>

\* lines 171-177 and 206-208: the loop condition, the select, and either a
\* return or the request of getPlaylist(playlistURL)
LoopTop ==
  /\ Alive /\ pc = "loop"
  /\ IF isCompleted
     THEN /\ pc' = "returned" /\ outcome' = "Completed"
          /\ UNCHANGED <<reqURL, fetches, stopObserved>>
     ELSE IF stopChan
     THEN /\ pc' = "returned" /\ outcome' = "Stopped"
          /\ stopObserved' = TRUE
          /\ UNCHANGED <<reqURL, fetches>>
     ELSE /\ pc' = "getPlaylist" /\ reqURL' = playlistURL /\ fetches' = 1
          /\ UNCHANGED <<outcome, stopObserved>>
  /\ UNCHANGED <<dvars, playlistURL, retryCount, hasTriedReplay, chunks, idx, content,
                 cvars, fvars, marked, closesByClose, closesByMain, failedRefs>>

\* lines 178-193: getPlaylist returned an error of the given kind, with the
\* fields it left behind
FetchFailed(kind, completed) ==
  /\ isCompleted' = completed
  /\ reqURL' = NoURL /\ fetches' = 0
  /\ IF CanSwitchToReplay(kind, hasTriedReplay)
     THEN /\ playlistURL' = ReplayURL(playlistURL)
          /\ baseURL' = DirOf(ReplayURL(playlistURL))
          /\ hasTriedReplay' = TRUE
          /\ retryCount' = 0
          /\ pc' = "loop"
          /\ switchCount' = Min(switchCount + 1, 2)
          /\ consecFails' = 0 /\ retryWaits' = 0
          /\ lastFetch' = "nosegSwitch" /\ secondNoSeg' = FALSE
          /\ UNCHANGED outcome
     ELSE /\ retryCount' = retryCount + 1
          /\ consecFails' = consecFails + 1
          /\ lastFetch' = "fail"
          /\ secondNoSeg' = (kind = "noseg" /\ lastFetch = "nosegSwitch")
          /\ IF RetryExceeded(retryCount + 1)
             THEN pc' = "returned" /\ outcome' = "Failed"
             ELSE pc' = "retrySleep" /\ UNCHANGED outcome
          /\ UNCHANGED <<playlistURL, baseURL, hasTriedReplay, switchCount, retryWaits>>
  /\ UNCHANGED <<seenChunks, stopChan, writerClosed, wvars, chunks, idx, cvars, hvars>>

\* lines 195-197: getPlaylist returned the list cs; processChunks begins
FetchSucceeded(cs, base, completed) ==
  /\ isCompleted' = completed
  /\ baseURL' = base
  /\ reqURL' = NoURL /\ fetches' = 0
  /\ retryCount' = RetryCountAfterSuccess(retryCount)
  /\ chunks' = cs /\ idx' = 1
  /\ pc' = "processChunks"
  /\ lastFetch' = "ok" /\ secondNoSeg' = FALSE
  /\ consecFails' = 0 /\ retryWaits' = 0
  /\ UNCHANGED <<seenChunks, stopChan, writerClosed, wvars, playlistURL, hasTriedReplay,
                 outcome, cvars, switchCount, marked,
                 closesByClose, closesByMain, stopObserved, failedRefs>>

\* lines 297-308: no chunk, and the body names a nested manifest:
\* getPlaylist calls itself, which issues the next request.  The model
\* counts the requests of a call up to MaxFetches.
FetchNested(body, completed) ==
  /\ fetches < MaxFetches
  /\ isCompleted' = completed
  /\ reqURL' = NestedPath(baseURL, FirstNested(body))
  /\ fetches' = fetches + 1
  /\ UNCHANGED <<baseURL, seenChunks, stopChan, writerClosed, wvars, pc, playlistURL,
                 retryCount, hasTriedReplay, chunks, idx, outcome, cvars, fvars,
                 marked, closesByClose, closesByMain, stopObserved, failedRefs>>

\* lines 258-315: getPlaylist on a body of status 200, sc being its first scan
HandleBody(body, sc) ==
  LET completed == CompletedAfter(isCompleted, sc)
  IN IF Len(sc.chunks) > 0
     THEN FetchSucceeded(RewriteChunks(sc.chunks),
                         RewriteBaseURL(sc.chunks, baseURL), completed)
     ELSE IF HasNested(body)
     THEN FetchNested(body, completed)
     ELSE FetchFailed("noseg", completed)

\* lines 245-315: the manifest request in flight returns resp
GetPlaylistReturn(resp) ==
  /\ Alive /\ pc = "getPlaylist"
  /\ IF resp.status # "ok"
     THEN FetchFailed("transient", isCompleted)
     ELSE HandleBody(resp.body, Scanned[resp.body])
  /\ UNCHANGED content

\* line 191: time.Sleep(RETRY_INTERVAL) returns; continue
RetrySleep ==
  /\ Alive /\ pc = "retrySleep"
  /\ pc' = "loop"
  /\ retryWaits' = retryWaits + 1
  /\ UNCHANGED <<dvars, playlistURL, retryCount, hasTriedReplay, chunks, idx,
                 reqURL, gvars, outcome, cvars, consecFails, lastFetch, secondNoSeg,
                 switchCount, hvars>>

\* lines 197-208: processChunks returned nil.  The iteration and its chunks
\* end: the delay starts, or, the stream being complete, the loop condition
\* fails and Start returns.
AfterProcess ==
  /\ chunks' = <<>> /\ idx' = 1
  /\ IF isCompleted
     THEN pc' = "returned" /\ outcome' = "Completed"
     ELSE pc' = "chunkSleep" /\ UNCHANGED outcome

\* lines 212 and 224-229: the range loop goes to its next chunk, or ends
NextChunk ==
  IF idx < Len(chunks)
  THEN pc' = "processChunks" /\ idx' = idx + 1 /\ UNCHANGED <<chunks, outcome>>
  ELSE AfterProcess

\* lines 212-218: one iteration of the range loop up to the call of
\* downloadChunk
ChunkSelect ==
  /\ Alive /\ pc = "processChunks"
  /\ IF stopChan
     THEN AfterProcess /\ stopObserved' = TRUE
     ELSE IF NeedsDownload(seenChunks, chunks[idx])
     THEN pc' = "downloadChunk" /\ UNCHANGED <<chunks, idx, outcome, stopObserved>>
     ELSE NextChunk /\ UNCHANGED stopObserved
  /\ UNCHANGED <<dvars, playlistURL, retryCount, hasTriedReplay, reqURL, gvars,
                 cvars, fvars, marked, closesByClose, closesByMain, failedRefs>>

\* lines 219-226 and 330-355: the segment request in flight returns
DownloadReturn(res) ==
  /\ Alive /\ pc = "downloadChunk"
  /\ res = "ok" => ~writerClosed
  /\ res = "closed" => writerClosed
  /\ seenChunks' = MarkSeen(seenChunks, chunks[idx], res)
  /\ marked' = marked \cup (seenChunks' \ seenChunks)
  /\ IF res = "closed"
     THEN AfterProcess /\ UNCHANGED failedRefs
     ELSE /\ NextChunk
          /\ failedRefs' = IF res \in {"ok", "okEmpty"}
                           THEN failedRefs \ {chunks[idx]}
                           ELSE failedRefs \cup {chunks[idx]}
  /\ UNCHANGED <<baseURL, isCompleted, stopChan, writerClosed, playlistURL,
                 retryCount, hasTriedReplay, reqURL, gvars, cvars, fvars,
                 closesByClose, closesByMain, stopObserved>>

\* line 353: what io.Copy(d.writer, resp.Body) of that request did to the file
CopyBody(res) ==
  /\ sink' = SinkAfter(sink, chunks[idx], res)
  /\ sinkTorn' = TornAfter(sinkTorn, res)
  /\ overtaken' = IF res = "ok"
                  THEN overtaken \cup {chunks[i] : i \in {j \in 1..(idx - 1) :
                                                           chunks[j] \notin seenChunks'}}
                  ELSE overtaken

\* line 202: time.Sleep(CHUNK_INTERVAL) returns
ChunkSleep ==
  /\ Alive /\ pc = "chunkSleep"
  /\ pc' = "loop"
  /\ UNCHANGED <<dvars, playlistURL, retryCount, hasTriedReplay, chunks, idx,
                 reqURL, gvars, outcome, cvars, fvars, hvars>>

\* ---------------------------------------------------------------- Close
\* A goroutine other than main calls Close at any time; main calls it as
\* its deferred downloader.Close() once Start has returned nil.
MayClose(who) ==
  who = "main" => pc = "returned" /\ outcome \in {"Completed", "Stopped"}
At(who, p) == IF who = "main" THEN mainClose = p ELSE closers[p] > 0
Move(who, p, q) ==
  IF who = "main"
  THEN mainClose' = q /\ UNCHANGED closers
  ELSE closers' = [closers EXCEPT ![p] = @ - 1, ![q] = @ + 1] /\ UNCHANGED mainClose

\* lines 358-361: the select
CloseSelect(who) ==
  /\ Alive /\ At(who, "idle") /\ MayClose(who)
  /\ Move(who, "idle", IF stopChan THEN "writer" ELSE "closeChan")
  /\ UNCHANGED <<dvars, svars, panicked, fvars, hvars>>

\* line 362: close(d.stopChan), which panics on a closed channel
CloseChan(who) ==
  /\ Alive /\ At(who, "closeChan")
  /\ IF stopChan
     THEN panicked' = TRUE /\ UNCHANGED <<stopChan, mainClose, closers>>
     ELSE /\ stopChan' = TRUE
          /\ Move(who, "closeChan", "writer")
          /\ UNCHANGED panicked
  /\ UNCHANGED <<baseURL, seenChunks, isCompleted, writerClosed, wvars, svars, fvars,
                 hvars>>

\* lines 365-367: d.writer.Close()
CloseWriter(who) ==
  /\ Alive /\ At(who, "writer")
  /\ writerClosed' = TRUE
  /\ closesByClose' = closesByClose + 1
  /\ Move(who, "writer", "done")
  /\ UNCHANGED <<baseURL, seenChunks, isCompleted, stopChan, wvars, svars, panicked,
                 fvars, marked, closesByMain, stopObserved, failedRefs>>

\* ----------------------------------------------------------------- main
\* lines 585 and 596: after the deferred downloader.Close(), the deferred
\* writer.Close() runs and main returns
MainDeferWriterClose ==
  /\ Alive /\ pc = "returned" /\ mainClose = "done"
  /\ writerClosed' = TRUE
  /\ closesByMain' = closesByMain + 1
  /\ pc' = "exited"
  /\ UNCHANGED <<baseURL, seenChunks, isCompleted, stopChan, wvars, playlistURL,
                 retryCount, hasTriedReplay, chunks, idx, reqURL, gvars, outcome, cvars,
                 fvars, marked, closesByClose, stopObserved, failedRefs>>

\* lines 592-595: Start returned an error; os.Exit(1) runs no deferred call
MainExitFailed ==
  /\ Alive /\ pc = "returned" /\ outcome = "Failed"
  /\ pc' = "exited"
  /\ UNCHANGED <<dvars, playlistURL, retryCount, hasTriedReplay, chunks, idx,
                 reqURL, gvars, outcome, cvars, fvars, hvars>>

\* every step but the return of a segment request
Others ==
  \/ StartCall
  \/ LoopTop
  \/ \E resp \in Responses : GetPlaylistReturn(resp)
  \/ RetrySleep
  \/ ChunkSelect
  \/ ChunkSleep
  \/ \E who \in Who : CloseSelect(who)
  \/ \E who \in Who : CloseChan(who)
  \/ \E who \in Who : CloseWriter(who)
  \/ MainDeferWriterClose
  \/ MainExitFailed

\* The program writes the file and never reads it.  Spec is the program
\* with the content of the file left out of the state: sink and sinkTorn
\* stay as Init sets them.
Next ==
  \/ Others
  \/ \E res \in DownloadResults : DownloadReturn(res) /\ UNCHANGED wvars

Spec == Init /\ [][Next]_vars

\* ----------------------------------------------- getPlaylist on its own
\* A call of getPlaylist whose request returned status 200 with the body
\* content: the call Start makes in its first iteration, or the call
\* getPlaylist made of itself for the nested manifest of that iteration,
\* with or without an end marker seen on the way.
ParseInit ==
  /\ content \in ParseBodies
  /\ pc = "getPlaylist"
  /\ playlistURL \in StartURLs
  /\ baseURL = DirOf(playlistURL)
  /\ \/ fetches = 1 /\ reqURL = playlistURL /\ isCompleted = FALSE
     \/ fetches = 2 /\ reqURL = URL(baseURL, "chunklist.m3u8") /\ isCompleted \in BOOLEAN
  /\ seenChunks = {}
  /\ stopChan = FALSE
  /\ writerClosed = FALSE
  /\ sink = <<>>
  /\ sinkTorn = FALSE
  /\ overtaken = {}
  /\ retryCount = 0
  /\ hasTriedReplay = FALSE
  /\ chunks = <<>>
  /\ idx = 1
  /\ outcome = "none"
  /\ mainClose = "idle"
  /\ closers = [p \in ClosePcs |-> IF p = "idle" THEN NumCallers ELSE 0]
  /\ panicked = FALSE
  /\ marked = {}
  /\ switchCount = 0
  /\ consecFails = 0
  /\ retryWaits = 0
  /\ lastFetch = "none"
  /\ secondNoSeg = FALSE
  /\ closesByClose = 0
  /\ closesByMain = 0
  /\ stopObserved = FALSE
  /\ failedRefs = {}

\* lines 258-315 on content; a nested request returns the same body again
ParseBody ==
  /\ pc = "getPlaylist"
  /\ HandleBody(content, ScanBody(content))
  /\ UNCHANGED content

ParseNext == ParseBody

ParseSpec == ParseInit /\ [][ParseNext]_vars

\* FileSpec is the same program with the content of the file recorded.
FileNext ==
  \/ Others
  \/ \E res \in DownloadResults : DownloadReturn(res) /\ CopyBody(res)

FileSpec == Init /\ [][FileNext]_vars

\* ------------------------------------------------------------ properties
AllSeen(cs, seen) == \A i \in 1..Len(cs) : cs[i] \in seen
DownloadFailures == {"reqErr", "httpErr", "copyErr", "copyTorn"}

\* C1: once a manifest with the end-of-list marker has been observed
\* (isCompleted is true), no manifest request is issued any more: no manifest
\* request is in flight while isCompleted is true.
C1_NoFetchAfterComplete == pc = "getPlaylist" => ~isCompleted

\* C2: downloadChunk is never invoked for a reference that has been marked
\* in seenChunks, whether it reappears in a later manifest or in the same one.
C2_NoRedownload == pc = "downloadChunk" => chunks[idx] \notin marked
\* a marked reference heads the manifest and is listed again right after
C2_Witness ==
  /\ pc = "processChunks" /\ idx = 1 /\ ~stopChan
  /\ Len(chunks) = 2 /\ chunks[1] \in marked /\ chunks[2] = chunks[1]

C4_SwitchAtMostOnce == switchCount <= 1
\* after the switch, a fetch has found no segments again and the retry is on
C4_Witness == switchCount = 1 /\ secondNoSeg /\ pc = "getPlaylist"

\* C5: Start returns an error exactly when more than MAX_RETRIES manifest
\* fetches have failed in a row since the last successful fetch or the switch
\* to replay, and then on the fetch after the MAX_RETRIES-th, with the retry
\* delay waited after each of the first MAX_RETRIES.
C5_FailedIffRetriesExceeded ==
  /\ outcome = "Failed" <=> consecFails > MAX_RETRIES
  /\ outcome = "Failed" => consecFails = MAX_RETRIES + 1 /\ retryWaits = MAX_RETRIES
\* the retries ran out after an earlier fetch had succeeded
C5_Witness == outcome = "Failed" /\ marked # {}

\* C6: when the process has run its shutdown sequence, the Close of the
\* output file has been invoked exactly once.
C6_SinkClosedExactlyOnce == pc = "exited" => closesByClose + closesByMain = 1

\* C7: however two calls of Close fall, the stop channel is not closed twice
\* (no panic) and Close does not close the output file a second time.
C7_CloseIdempotent == ~panicked /\ closesByClose <= 1

\* C8: a session in which the driver has observed the cancellation (a select
\* of Start or of processChunks found the stop channel closed) ends as
\* Stopped.
C8_CancelledEndsStopped == (stopObserved /\ outcome # "none") => outcome = "Stopped"

\* C9: when Start leaves the loop as Completed after a successful fetch, every
\* reference of that last manifest is in seenChunks.
C9_CompletedHasAllSegments ==
  [][(outcome = "none" /\ outcome' = "Completed" /\ lastFetch = "ok")
       => AllSeen(chunks, seenChunks')]_vars

\* C10: a failure of downloadChunk that is not the closed file leaves the
\* reference unmarked, lets processChunks go on to the next chunk of the
\* list and does not make Start fail; and a reference whose download failed
\* is passed to downloadChunk when processChunks reaches it again.
C10_SegmentFailureSkipped ==
  [][/\ (\E res \in DownloadFailures : DownloadReturn(res))
          => /\ seenChunks' = seenChunks
             /\ chunks[idx] \notin seenChunks'
             /\ outcome' # "Failed"
             /\ idx < Len(chunks)
                  => pc' = "processChunks" /\ idx' = idx + 1 /\ chunks' = chunks
     /\ (ChunkSelect /\ ~stopChan /\ chunks[idx] \in failedRefs)
          => pc' = "downloadChunk"]_vars
\* a reference that failed in an earlier poll heads a later manifest and is
\* requested again
C10_Witness == pc = "downloadChunk" /\ idx = 1 /\ chunks[1] \in failedRefs

\* C11: a download that fails because the file is closed ends the session at
\* once as Stopped: Start returns with no delay, no further request, and the
\* session is neither Completed nor Failed.
C11_SinkClosedStopsAtOnce ==
  [][DownloadReturn("closed") => pc' = "returned" /\ outcome' = "Stopped"]_vars

\* a body without segment lines whose only manifest reference is
\* master_playlist.m3u8
OnlyMaster(body) ==
  /\ \E i \in 1..Len(body) : body[i] = Master
  /\ \A i \in 1..Len(body) : body[i] \in {Blank, Tag, Master}
\* a body without segment lines that names another manifest
NamesNested(body) ==
  /\ \E i \in 1..Len(body) : body[i] = Nested
  /\ \A i \in 1..Len(body) : body[i] \in {Blank, Tag, Master, Nested}
\* the call ends with the error "No audio segments or valid playlist found":
\* no list, no request, and Start, which has not tried replay, switches to it
FailsNoSegments ==
  /\ pc' = "loop" /\ lastFetch' = "nosegSwitch" /\ hasTriedReplay'
  /\ fetches' = 0 /\ reqURL' = NoURL /\ chunks' = chunks

\* C12 as stated: on a body without segment lines that references only
\* master_playlist.m3u8, getPlaylist issues the request for that nested
\* manifest instead of failing.
C12_MasterOnlyFetched ==
  [][(ParseBody /\ OnlyMaster(content))
       => pc' = "getPlaylist" /\ fetches' = fetches + 1 /\ reqURL' # NoURL]_vars
\* C12 amended: on such a body getPlaylist issues no request and fails with
\* the no-segments error; the nested request is made for a manifest line
\* that is not master_playlist.
C12_MasterOnlyFails ==
  [][/\ (ParseBody /\ OnlyMaster(content)) => FailsNoSegments
     /\ (ParseBody /\ NamesNested(content))
          => /\ pc' = "getPlaylist" /\ fetches' = fetches + 1
             /\ reqURL' = URL(baseURL, "chunklist.m3u8")]_vars
C12_Witness ==
  content = <<Tag, Master>> /\ pc = "loop" /\ lastFetch = "nosegSwitch"

\* a body of N >= 0 pairs of an #EXTINF: line and a segment reference, and
\* nothing else; its references in document order
IsPairBody(body) ==
  /\ Len(body) % 2 = 0
  /\ \A i \in 1..Len(body) :
       IF i % 2 = 1 THEN body[i] = ExtInf ELSE body[i].kind = "seg"
PairRefs(body) == [i \in 1..(Len(body) \div 2) |-> body[2 * i]]

\* C13 as stated: on a body of N >= 0 pairs without end marker getPlaylist
\* returns exactly the N references in document order, and isCompleted is
\* false after it.
C13_PairsReturnedNotCompleted ==
  [][(ParseBody /\ IsPairBody(content))
       => pc' = "processChunks" /\ chunks' = PairRefs(content) /\ ~isCompleted']_vars
\* C13 amended: with N >= 1 getPlaylist returns N references in document
\* order, as listed or, when the first is an absolute URL, each as its bare
\* trailing component, and leaves isCompleted as it was; with N = 0 it fails
\* with the no-segments error.
C13_PairsReturnedInOrder ==
  [][(ParseBody /\ IsPairBody(content))
       => IF content = <<>>
          THEN FailsNoSegments /\ isCompleted' = isCompleted
          ELSE /\ pc' = "processChunks"
               /\ Len(chunks') = Len(content) \div 2
               /\ \A i \in 1..Len(chunks') :
                    chunks'[i] = IF PairRefs(content)[1].abs
                                 THEN [PairRefs(content)[i] EXCEPT !.abs = FALSE]
                                 ELSE PairRefs(content)[i]
               /\ isCompleted' = isCompleted]_vars
C13_Witness ==
  /\ content = <<ExtInf, Seg(2), ExtInf, Seg(1)>>
  /\ pc = "processChunks" /\ chunks = <<Seg(2), Seg(1)>> /\ ~isCompleted

\* the body has an #EXT-X-ENDLIST line
HasEndMarker(body) == \E i \in 1..Len(body) : body[i].kind = "endlist"

InSink == {sink[i] : i \in 1..Len(sink)}

\* C16: the payloads lie in the file in the order of the manifest, each at
\* most once: no payload is in the file twice, and a reference that was
\* listed before an appended payload and was not in the file then is not
\* appended behind it later.
C16_AppendInManifestOrder ==
  /\ \A i, j \in 1..Len(sink) : sink[i] = sink[j] => i = j
  /\ overtaken \cap InSink = {}

\* C19: a call of downloadChunk that returns a request error, a status other
\* than 200 or an error of the copy leaves the file as it was.
C19_FailedDownloadKeepsSink ==
  [][(\E res \in DownloadFailures : DownloadReturn(res))
       => sink' = sink /\ sinkTorn' = sinkTorn]_vars

\* the references the first scan collects from a body
Collected(body) == ScanBody(body).chunks

\* C17: when a collected reference, at whatever place of the list, is an
\* absolute URL, getPlaylist sets baseURL to the directory of that URL and
\* returns every reference as its bare trailing component.
C17_AnyAbsoluteRewritesAll ==
  [][(ParseBody /\ \E i \in 1..Len(Collected(content)) :
                     HasPrefixHttp(Collected(content)[i]))
       => /\ pc' = "processChunks"
          /\ baseURL' = "cdn"
          /\ \A i \in 1..Len(chunks') : ~HasPrefixHttp(chunks'[i])]_vars

\* C18: Start ends as Completed only after a fetch that returned a list to
\* processChunks: never when its last fetch failed.
C18_CompletedOnlyAfterSuccess == outcome = "Completed" => lastFetch = "ok"

\* C20: one call of getPlaylist by Start issues a bounded number of requests
\* and returns, whatever the bodies: it does not go round a cycle of
\* manifests, so the request it makes for a nested manifest is never the
\* request of the manifest it has just read.
C20_FetchTerminates ==
  [][(pc = "getPlaylist" /\ pc' = "getPlaylist" /\ fetches' = fetches + 1)
       => reqURL' # reqURL]_vars
====
